---- MODULE Spec2Model ----
(***************************************************************************)
(* Event-attendance tracker (vitor-gp/snfrs): the entity store (users,     *)
(* events, the user_event_attendance relation), the event status engine,   *)
(* the attendance coordinator, the Discord identity upsert and the         *)
(* admin / name registry of app/crud.py, with the HTTP handlers of         *)
(* app/routers built on them.                                              *)
(***************************************************************************)
EXTENDS Integers, Sequences, FiniteSets, Bags, TLC

VARIABLES
    users,       \* table users: sequence of rows, the index is User.id
    events,      \* table events: sequence of rows, the index is Event.id
    attendance,  \* table user_event_attendance: a bag of rows
    now,         \* the wall clock read by datetime.now()
    resp,        \* what the last call gave back to its caller
    reqs         \* requests in flight between their reads and their commit

vars == <<users, events, attendance, now, resp, reqs>>

----------------------------------------------------------------------------
(* Bounds of the model *)

MaxTime == 2
MaxReqs == 2
MaxUsers == 2

(* Values *)

NoneStr == "None"      \* Python None in a string column or argument
NoneId == 0            \* Python None / no row for an integer id
NoneTime == -1         \* NULL in a DateTime column

Time == 0..MaxTime

\* names are strings, kept as sequences of characters so that lower() and
\* ILIKE are computed
Names == { <<"a", "b">>, <<"A", "b">>, <<"a", "_">> }
NoName == << >>
DiscordIds == {"d1", "d2", "d3"}
DiscordNames == {"n1", "n2"}
Emails == {"e1", "e2"}

(* Messages of app/crud.py *)

MsgNotStarted == "Event has not started yet"
MsgEnded == "Event has ended"
MsgActive == "Event is currently active"
MsgInactive == "Event not found or inactive"
MsgUserOrEvent == "User or event not found"
MsgAlready == "Already marked as attended"
MsgNotRegistered == "Discord user not registered"
MsgEventNotFound == "Event not found"
MsgNoneRunning == "Nenhum evento rolando agora"
MsgAmbiguous == "Opa, tem mais de um evento rolando"

----------------------------------------------------------------------------
(* Strings *)

\* str.lower() on the characters of the model's alphabet
LowerChar(c) ==
    IF c = "A" THEN "a" ELSE IF c = "B" THEN "b" ELSE c

Lower(s) == [i \in 1..Len(s) |-> LowerChar(s[i])]

\* SQL LIKE, case-insensitive: "_" matches any one character, "%" any run
RECURSIVE LikeMatch(_, _)
LikeMatch(s, p) ==
    IF p = << >> THEN s = << >>
    ELSE IF Head(p) = "%"
         THEN LikeMatch(s, Tail(p)) \/ (s # << >> /\ LikeMatch(Tail(s), p))
         ELSE /\ s # << >>
              /\ (Head(p) = "_" \/ LowerChar(Head(s)) = LowerChar(Head(p)))
              /\ LikeMatch(Tail(s), Tail(p))

ilike(column, pattern) == LikeMatch(column, pattern)

SetMin(S) == CHOOSE x \in S : \A y \in S : x <= y

----------------------------------------------------------------------------
(* Entity store: lookups *)

UserIds(us) == 1..Len(us)
EventIds(evs) == 1..Len(evs)

get_user(us, user_id) ==
    IF user_id \in UserIds(us) THEN user_id ELSE NoneId

get_user_by_email(us, email) ==
    LET hit == {i \in UserIds(us) : us[i].email = email}
    IN IF hit = {} THEN NoneId ELSE SetMin(hit)

get_user_by_discord_id(us, discord_user_id) ==
    LET hit == {i \in UserIds(us) : us[i].discord_user_id = discord_user_id}
    IN IF hit = {} THEN NoneId ELSE SetMin(hit)

get_event(evs, event_id) ==
    IF event_id \in EventIds(evs) THEN event_id ELSE NoneId

\* rows of the relation for one (user, event) pair
PairRows(att, user_id, event_id) ==
    {r \in BagToSet(att) : r.user_id = user_id /\ r.event_id = event_id}

PairCount(att, user_id, event_id) ==
    LET rows == PairRows(att, user_id, event_id)
        RECURSIVE Sum(_)
        Sum(S) == IF S = {} THEN 0
                  ELSE LET r == CHOOSE x \in S : TRUE
                       IN CopiesIn(r, att) + Sum(S \ {r})
    IN Sum(rows)

\* db_event in db_user.attended_events
attended(att, user_id, event_id) == PairRows(att, user_id, event_id) # {}

----------------------------------------------------------------------------
(* Event status engine *)

NoStatus == [status |-> NoneStr, can_attend |-> FALSE]

\* the status engine without its "now > end_time" branch
get_event_status_no_end(evs, event_id, t) ==
    IF get_event(evs, event_id) = NoneId \/ ~evs[event_id].is_active
    THEN NoStatus
    ELSE IF t < evs[event_id].start_time
         THEN [status |-> MsgNotStarted, can_attend |-> FALSE]
         ELSE [status |-> MsgActive, can_attend |-> TRUE]

\* the status engine counting now = end_time as already ended
get_event_status_end_exclusive(evs, event_id, t) ==
    IF get_event(evs, event_id) = NoneId \/ ~evs[event_id].is_active
    THEN NoStatus
    ELSE IF t < evs[event_id].start_time
         THEN [status |-> MsgNotStarted, can_attend |-> FALSE]
         ELSE IF t >= evs[event_id].end_time
              THEN [status |-> MsgEnded, can_attend |-> FALSE]
              ELSE [status |-> MsgActive, can_attend |-> TRUE]

get_event_status(evs, event_id, t) ==
    IF get_event(evs, event_id) = NoneId \/ ~evs[event_id].is_active
    THEN NoStatus
    ELSE IF t < evs[event_id].start_time
         THEN [status |-> MsgNotStarted, can_attend |-> FALSE]
         ELSE IF t > evs[event_id].end_time
              THEN [status |-> MsgEnded, can_attend |-> FALSE]
              ELSE [status |-> MsgActive, can_attend |-> TRUE]

can_attend_event(evs, event_id, t) ==
    LET event_status == get_event_status(evs, event_id, t)
    IN IF event_status = NoStatus
       THEN [can_attend |-> FALSE, error |-> MsgInactive]
       ELSE IF ~event_status.can_attend
            THEN [can_attend |-> FALSE, error |-> event_status.status]
            ELSE [can_attend |-> TRUE, error |-> NoneStr]

get_active_events(evs, t) ==
    {e \in EventIds(evs) :
        evs[e].is_active /\ evs[e].start_time <= t /\ evs[e].end_time >= t}

\* get_single_ongoing_event giving the first ongoing event when there are several
get_single_ongoing_event_first(evs, t) ==
    LET ongoing_events == get_active_events(evs, t)
    IN IF Cardinality(ongoing_events) = 0
       THEN [event |-> NoneId, error |-> MsgNoneRunning]
       ELSE [event |-> SetMin(ongoing_events), error |-> NoneStr]

get_single_ongoing_event(evs, t) ==
    LET ongoing_events == get_active_events(evs, t)
    IN IF Cardinality(ongoing_events) = 0
       THEN [event |-> NoneId, error |-> MsgNoneRunning]
       ELSE IF Cardinality(ongoing_events) > 1
            THEN [event |-> NoneId, error |-> MsgAmbiguous]
            ELSE [event |-> CHOOSE e \in ongoing_events : TRUE,
                  error |-> NoneStr]

----------------------------------------------------------------------------
(* Responses *)

MsgAdminNotFound == "Admin user not found. Please register first."
MsgOnlyAdmins == "Only admins can mark attendance for other users."
MsgTargetNotFound == "User with name not found."
MsgSelf == "Use the regular /bater-ponto command to mark your own attendance."
MsgEventIdNotFound == "Event with ID not found."
MsgTargetAlready == "already attended this event."
MsgMarkedFor == "marked attendance for"
MsgInvalidPassword == "Invalid password"
MsgUserNotFound == "User not found. Please register first using /register"
MsgAlreadyAdmin == "is already an admin"
MsgNowAdmin == "is now an admin!"
MsgCannotAttend == "Cannot attend"
MsgAttended == "Successfully attended"
IntegrityError == "IntegrityError"
AttributeError == "AttributeError"
TypeError == "TypeError"
ValidationError == "ValidationError"

\* kind: "return" (a value or JSON body), "http_error" (HTTPException),
\* "raise" (an exception that leaves the function); again: the call has the
\* operation and the arguments of the call before it
NoResp ==
    [op |-> "none", uid |-> NoneId, did |-> NoneStr, eid |-> NoneId,
     name |-> NoName, kind |-> "return", success |-> "na", msg |-> NoneStr,
     event |-> NoneId, user |-> NoneId, is_new |-> FALSE, changes |-> {},
     dname |-> NoneStr, email |-> NoneStr, again |-> FALSE,
     password |-> NoneStr]

----------------------------------------------------------------------------
(* Attendance coordinator *)

\* INSERT into user_event_attendance, whose primary key is (user_id, event_id)
\* the INSERT on a table without the composite primary key
attendance_insert_no_pk(att, user_id, event_id, t) ==
    [ok |-> TRUE,
     att |-> att (+) SetToBag({[user_id |-> user_id, event_id |-> event_id,
                                attended_at |-> t]})]

attendance_insert(att, user_id, event_id, t) ==
    IF PairRows(att, user_id, event_id) # {}
    THEN [ok |-> FALSE, att |-> att]
    ELSE [ok |-> TRUE,
          att |-> att (+) SetToBag({[user_id |-> user_id,
                                     event_id |-> event_id,
                                     attended_at |-> t]})]

\* mark_attendance up to its append: the reads and the early returns
mark_attendance_check(us, evs, att, t, user_id, event_id) ==
    LET ca == can_attend_event(evs, event_id, t)
    IN IF ~ca.can_attend
       THEN [event |-> NoneId, error |-> ca.error, append |-> FALSE]
       ELSE IF get_user(us, user_id) = NoneId \/ get_event(evs, event_id) = NoneId
            THEN [event |-> NoneId, error |-> MsgUserOrEvent, append |-> FALSE]
            ELSE IF attended(att, user_id, event_id)
                 THEN [event |-> event_id, error |-> MsgAlready, append |-> FALSE]
                 ELSE [event |-> event_id, error |-> NoneStr, append |-> TRUE]

\* the whole call: reads, append, commit
mark_attendance(us, evs, att, t, user_id, event_id) ==
    LET r == mark_attendance_check(us, evs, att, t, user_id, event_id)
        ins == attendance_insert(att, user_id, event_id, t)
    IN IF ~r.append
       THEN [att |-> att, event |-> r.event, error |-> r.error, raised |-> NoneStr]
       ELSE IF ins.ok
            THEN [att |-> ins.att, event |-> r.event, error |-> NoneStr,
                  raised |-> NoneStr]
            ELSE [att |-> att, event |-> NoneId, error |-> NoneStr,
                  raised |-> IntegrityError]

mark_attendance_discord_check(us, evs, att, t, discord_user_id, event_id) ==
    LET ca == can_attend_event(evs, event_id, t)
        db_user == get_user_by_discord_id(us, discord_user_id)
    IN IF ~ca.can_attend
       THEN [event |-> NoneId, error |-> ca.error, user |-> NoneId,
             append |-> FALSE]
       ELSE IF db_user = NoneId
            THEN [event |-> NoneId, error |-> MsgNotRegistered, user |-> NoneId,
                  append |-> FALSE]
            ELSE IF get_event(evs, event_id) = NoneId
                 THEN [event |-> NoneId, error |-> MsgEventNotFound,
                       user |-> db_user, append |-> FALSE]
                 ELSE IF attended(att, db_user, event_id)
                      THEN [event |-> event_id, error |-> MsgAlready,
                            user |-> db_user, append |-> FALSE]
                      ELSE [event |-> event_id, error |-> NoneStr,
                            user |-> db_user, append |-> TRUE]

mark_attendance_discord(us, evs, att, t, discord_user_id, event_id) ==
    LET r == mark_attendance_discord_check(us, evs, att, t, discord_user_id,
                                           event_id)
        ins == attendance_insert(att, r.user, event_id, t)
    IN IF ~r.append
       THEN [att |-> att, event |-> r.event, error |-> r.error, user |-> r.user,
             raised |-> NoneStr]
       ELSE IF ins.ok
            THEN [att |-> ins.att, event |-> r.event, error |-> NoneStr,
                  user |-> r.user, raised |-> NoneStr]
            ELSE [att |-> att, event |-> NoneId, error |-> NoneStr,
                  user |-> NoneId, raised |-> IntegrityError]

\* check_user_attendance that sees no row of the relation
check_user_attendance_blind(us, evs, att, user_id, event_id) == FALSE

check_user_attendance(us, evs, att, user_id, event_id) ==
    IF get_user(us, user_id) = NoneId \/ get_event(evs, event_id) = NoneId
    THEN FALSE
    ELSE attended(att, user_id, event_id)

\* the rows User.name ILIKE name matches; first() gives one of them
get_user_by_name(us, name) == {i \in UserIds(us) : ilike(us[i].name, name)}

FirstOf(S) == IF S = {} THEN {NoneId} ELSE S

\* "if not admin_user.is_admin": the flag as the store holds it at the call
is_admin_mutant(us, admin_user) == TRUE

is_admin(us, admin_user) == us[admin_user].is_admin

\* mark_attendance_for_user with the target looked up before the caller is
\* checked
mark_attendance_for_user_check_target_first(us, evs, att, t, admin_discord_id, target_user, event_id) ==
    LET admin_user == get_user_by_discord_id(us, admin_discord_id)
        ongoing == get_single_ongoing_event(evs, t)
        eid == IF event_id = NoneId THEN ongoing.event ELSE event_id
        ca == can_attend_event(evs, eid, t)
        Refuse(m, a, tg, e) ==
            [success |-> FALSE, msg |-> m, admin |-> a, target |-> tg,
             event |-> e, append |-> FALSE]
    IN IF target_user = NoneId
       THEN Refuse(MsgTargetNotFound, admin_user, NoneId, NoneId)
       ELSE IF admin_user = NoneId
       THEN Refuse(MsgAdminNotFound, NoneId, NoneId, NoneId)
       ELSE IF ~is_admin(us, admin_user)
       THEN Refuse(MsgOnlyAdmins, NoneId, NoneId, NoneId)
       ELSE IF admin_user = target_user
       THEN Refuse(MsgSelf, admin_user, target_user, NoneId)
       ELSE IF event_id = NoneId /\ (ongoing.error # NoneStr \/ ongoing.event = NoneId)
       THEN Refuse(ongoing.error, admin_user, target_user, NoneId)
       ELSE IF get_event(evs, eid) = NoneId
       THEN Refuse(MsgEventIdNotFound, admin_user, target_user, NoneId)
       ELSE IF ~ca.can_attend
       THEN Refuse(ca.error, admin_user, target_user, eid)
       ELSE IF check_user_attendance(us, evs, att, target_user, eid)
       THEN Refuse(MsgTargetAlready, admin_user, target_user, eid)
       ELSE [success |-> TRUE, msg |-> MsgMarkedFor, admin |-> admin_user,
             target |-> target_user, event |-> eid, append |-> TRUE]

\* mark_attendance_for_user up to its append; target_user is the row
\* get_user_by_name gave (NoneId when no row matches)
mark_attendance_for_user_check(us, evs, att, t, admin_discord_id, target_user, event_id) ==
    LET admin_user == get_user_by_discord_id(us, admin_discord_id)
        ongoing == get_single_ongoing_event(evs, t)
        eid == IF event_id = NoneId THEN ongoing.event ELSE event_id
        ca == can_attend_event(evs, eid, t)
        Refuse(m, a, tg, e) ==
            [success |-> FALSE, msg |-> m, admin |-> a, target |-> tg,
             event |-> e, append |-> FALSE]
    IN IF admin_user = NoneId
       THEN Refuse(MsgAdminNotFound, NoneId, NoneId, NoneId)
       ELSE IF ~is_admin(us, admin_user)
       THEN Refuse(MsgOnlyAdmins, NoneId, NoneId, NoneId)
       ELSE IF target_user = NoneId
       THEN Refuse(MsgTargetNotFound, admin_user, NoneId, NoneId)
       ELSE IF admin_user = target_user
       THEN Refuse(MsgSelf, admin_user, target_user, NoneId)
       ELSE IF event_id = NoneId /\ (ongoing.error # NoneStr \/ ongoing.event = NoneId)
       THEN Refuse(ongoing.error, admin_user, target_user, NoneId)
       ELSE IF get_event(evs, eid) = NoneId
       THEN Refuse(MsgEventIdNotFound, admin_user, target_user, NoneId)
       ELSE IF ~ca.can_attend
       THEN Refuse(ca.error, admin_user, target_user, eid)
       ELSE IF check_user_attendance(us, evs, att, target_user, eid)
       THEN Refuse(MsgTargetAlready, admin_user, target_user, eid)
       ELSE [success |-> TRUE, msg |-> MsgMarkedFor, admin |-> admin_user,
             target |-> target_user, event |-> eid, append |-> TRUE]

mark_attendance_for_user(us, evs, att, t, admin_discord_id, target_user, event_id) ==
    LET r == mark_attendance_for_user_check(us, evs, att, t, admin_discord_id,
                                            target_user, event_id)
        ins == attendance_insert(att, r.target, r.event, t)
    IN IF ~r.append
       THEN [att |-> att, success |-> r.success, msg |-> r.msg,
             admin |-> r.admin, target |-> r.target, event |-> r.event,
             raised |-> NoneStr]
       ELSE IF ins.ok
            THEN [att |-> ins.att, success |-> TRUE, msg |-> r.msg,
                  admin |-> r.admin, target |-> r.target, event |-> r.event,
                  raised |-> NoneStr]
            ELSE [att |-> att, success |-> FALSE, msg |-> NoneStr,
                  admin |-> NoneId, target |-> NoneId, event |-> NoneId,
                  raised |-> IntegrityError]

----------------------------------------------------------------------------
(* Admin registry *)

AdminPassword == "123"
Passwords == {AdminPassword, "bad"}

\* make_user_admin without the comparison of the password
make_user_admin_any_password(us, discord_user_id, password) ==
    LET db_user == get_user_by_discord_id(us, discord_user_id)
    IN IF db_user = NoneId
       THEN [users |-> us, user |-> NoneId, success |-> FALSE,
             msg |-> MsgUserNotFound]
       ELSE IF us[db_user].is_admin
            THEN [users |-> us, user |-> db_user, success |-> FALSE,
                  msg |-> MsgAlreadyAdmin]
            ELSE [users |-> [us EXCEPT ![db_user].is_admin = TRUE],
                  user |-> db_user, success |-> TRUE, msg |-> MsgNowAdmin]

make_user_admin(us, discord_user_id, password) ==
    LET db_user == get_user_by_discord_id(us, discord_user_id)
    IN IF password # AdminPassword
       THEN [users |-> us, user |-> NoneId, success |-> FALSE,
             msg |-> MsgInvalidPassword]
       ELSE IF db_user = NoneId
            THEN [users |-> us, user |-> NoneId, success |-> FALSE,
                  msg |-> MsgUserNotFound]
            ELSE IF us[db_user].is_admin
                 THEN [users |-> us, user |-> db_user, success |-> FALSE,
                       msg |-> MsgAlreadyAdmin]
                 ELSE [users |-> [us EXCEPT ![db_user].is_admin = TRUE],
                       user |-> db_user, success |-> TRUE, msg |-> MsgNowAdmin]

----------------------------------------------------------------------------
(* Events: validation and update *)

Unset == "unset"       \* a field the request body does not carry

\* EventCreate.end_time_must_be_after_start_time
event_create_valid(start_time, end_time) == ~(end_time <= start_time)

\* EventUpdate.end_time_must_be_after_start_time: the validator runs only
\* when end_time is supplied; 'start_time' is then always in values, as the
\* supplied value or as its default None, and comparing a datetime with None
\* raises TypeError
event_update_validate(upd) ==
    IF upd.end_time = NoneTime THEN "ok"
    ELSE IF upd.start_time = NoneTime THEN TypeError
         ELSE IF upd.end_time <= upd.start_time THEN ValidationError
              ELSE "ok"

\* update_event: setattr of every field the body carries
update_event(evs, event_id, upd) ==
    IF get_event(evs, event_id) = NoneId THEN evs
    ELSE [evs EXCEPT
            ![event_id].start_time =
                IF upd.start_time = NoneTime THEN @ ELSE upd.start_time,
            ![event_id].end_time =
                IF upd.end_time = NoneTime THEN @ ELSE upd.end_time,
            ![event_id].is_active =
                IF upd.is_active = Unset THEN @ ELSE upd.is_active = "true"]

\* INSERT into events: user_id is NOT NULL
events_insert(evs, row) ==
    IF row.user_id = NoneId THEN [ok |-> FALSE, events |-> evs]
    ELSE [ok |-> TRUE, events |-> Append(evs, row)]

\* crud.create_event: Event(**event.dict()), and EventCreate carries no user_id
create_event(evs, start_time, end_time) ==
    events_insert(evs, [start_time |-> start_time, end_time |-> end_time,
                        is_active |-> TRUE, user_id |-> NoneId])

\* start times a request body may carry: an event may be scheduled to start
\* past the last instant the clock reaches
EventTimes == 0..(MaxTime + 1)

EventUpdates ==
    [start_time : EventTimes \cup {NoneTime},
     end_time : Time \cup {NoneTime},
     is_active : {Unset, "true", "false"}]

TimeOnlyUpdates == {u \in EventUpdates : u.is_active = Unset}

ActiveOnlyUpdates ==
    {u \in EventUpdates : u.start_time = NoneTime /\ u.end_time = NoneTime
                          /\ u.is_active # Unset}

----------------------------------------------------------------------------
(* Inputs *)

UserIdArgs == 1..(Len(users) + 1)
EventIdArgs == 1..(Len(events) + 1)
TargetNames == { <<"A", "b">>, <<"a", "_">>, <<"z", "z">> }

Idle == [pc |-> "idle", op |-> "none", uid |-> NoneId, did |-> NoneStr,
         eid |-> NoneId, name |-> NoName, dname |-> NoneStr,
         email |-> NoneStr, changes |-> {}]

----------------------------------------------------------------------------
(* Actions: the clock, events, promotion *)

Tick ==
    /\ now < MaxTime
    /\ now' = now + 1
    /\ resp' = [NoResp EXCEPT !.op = "tick"]
    /\ UNCHANGED <<users, events, attendance, reqs>>

\* PUT /events/{event_id}
UpdateEvent(event_id, upd) ==
    LET v == event_update_validate(upd)
    IN /\ events' = IF v = "ok" THEN update_event(events, event_id, upd)
                    ELSE events
       /\ resp' = [NoResp EXCEPT
                     !.op = "update_event", !.eid = event_id,
                     !.kind = IF v # "ok" THEN "raise"
                              ELSE IF get_event(events, event_id) = NoneId
                                   THEN "http_error" ELSE "return",
                     !.msg = IF v # "ok" THEN v
                             ELSE IF get_event(events, event_id) = NoneId
                                  THEN MsgEventNotFound ELSE NoneStr,
                     !.event = IF v = "ok" THEN get_event(events, event_id)
                               ELSE NoneId]
       /\ UNCHANGED <<users, attendance, now, reqs>>

\* POST /discord/admin/make-admin
MakeUserAdmin(discord_user_id, password) ==
    LET r == make_user_admin(users, discord_user_id, password)
    IN /\ users' = r.users
       /\ resp' = [NoResp EXCEPT
                     !.op = "make_user_admin", !.did = discord_user_id,
                     !.password = password,
                     !.kind = IF r.user = NoneId THEN "http_error" ELSE "return",
                     !.success = IF r.success THEN "true" ELSE "false",
                     !.msg = r.msg, !.user = r.user]
       /\ UNCHANGED <<events, attendance, now, reqs>>

----------------------------------------------------------------------------
(* Actions: marking attendance *)

Outcome(op, uid, did, eid, r) ==
    [NoResp EXCEPT
        !.op = op, !.uid = uid, !.did = did, !.eid = eid,
        !.kind = IF r.raised # NoneStr THEN "raise" ELSE "return",
        !.msg = IF r.raised # NoneStr THEN r.raised ELSE r.error,
        !.event = r.event]

\* crud.mark_attendance called directly
MarkAttendance(user_id, event_id) ==
    LET r == mark_attendance(users, events, attendance, now, user_id, event_id)
    IN /\ attendance' = r.att
       /\ resp' = Outcome("mark_attendance", user_id, NoneStr, event_id, r)
       /\ UNCHANGED <<users, events, now, reqs>>

\* crud.mark_attendance_discord called directly
MarkAttendanceDiscord(discord_user_id, event_id) ==
    LET r == mark_attendance_discord(users, events, attendance, now,
                                     discord_user_id, event_id)
    IN /\ attendance' = r.att
       /\ resp' = [Outcome("mark_attendance_discord", NoneId, discord_user_id,
                           event_id, r) EXCEPT !.user = r.user]
       /\ UNCHANGED <<users, events, now, reqs>>

\* what the two handlers of app/routers/events.py do with crud's result: any
\* error_msg becomes an HTTPException; on success the response is built from
\* db_event.attendees[0].attended_at, an attribute a User does not have
events_router_response(op, uid, did, eid, r) ==
    [NoResp EXCEPT
        !.op = op, !.uid = uid, !.did = did, !.eid = eid,
        !.kind = IF r.raised # NoneStr THEN "raise"
                 ELSE IF r.error # NoneStr THEN "http_error"
                 ELSE "raise",
        !.msg = IF r.raised # NoneStr THEN r.raised
                ELSE IF r.error # NoneStr THEN r.error
                ELSE AttributeError]

\* POST /events/{event_id}/attend; current_user is an existing user
MarkEventAttendance(user_id, event_id) ==
    LET r == mark_attendance(users, events, attendance, now, user_id, event_id)
    IN /\ user_id \in UserIds(users)
       /\ attendance' = r.att
       /\ resp' = events_router_response("mark_event_attendance", user_id,
                                         NoneStr, event_id, r)
       /\ UNCHANGED <<users, events, now, reqs>>

\* POST /events/discord/attend
MarkDiscordAttendance(discord_user_id, event_id) ==
    LET r == mark_attendance_discord(users, events, attendance, now,
                                     discord_user_id, event_id)
    IN /\ attendance' = r.att
       /\ resp' = events_router_response("mark_discord_attendance", NoneId,
                                         discord_user_id, event_id, r)
       /\ UNCHANGED <<users, events, now, reqs>>

\* POST /discord/attend/{event_id}
attend_event_discord(us, evs, att, t, event_id, discord_user_id) ==
    LET user == get_user_by_discord_id(us, discord_user_id)
        event_status == get_event_status(evs, event_id, t)
        r == mark_attendance_discord(us, evs, att, t, discord_user_id, event_id)
        Give(k, s, m, a) == [kind |-> k, success |-> s, msg |-> m, att |-> a]
    IN IF user = NoneId THEN Give("http_error", "na", MsgNotRegistered, att)
       ELSE IF event_status = NoStatus
       THEN Give("http_error", "na", MsgEventNotFound, att)
       ELSE IF ~event_status.can_attend
       THEN Give("return", "false", event_status.status, att)
       ELSE IF r.raised # NoneStr THEN Give("raise", "na", r.raised, att)
       ELSE IF r.error # NoneStr THEN Give("return", "false", r.error, r.att)
       ELSE Give("return", "true", MsgAttended, r.att)

AttendEventDiscord(event_id, discord_user_id) ==
    LET r == attend_event_discord(users, events, attendance, now, event_id,
                                  discord_user_id)
    IN /\ attendance' = r.att
       /\ resp' = [NoResp EXCEPT
                     !.op = "attend_event_discord", !.did = discord_user_id,
                     !.eid = event_id, !.kind = r.kind, !.success = r.success,
                     !.msg = r.msg]
       /\ UNCHANGED <<users, events, now, reqs>>

\* POST /discord/attend/auto
auto_attend_event_discord(us, evs, att, t, discord_user_id) ==
    LET user == get_user_by_discord_id(us, discord_user_id)
        ongoing == get_single_ongoing_event(evs, t)
        r == mark_attendance_discord(us, evs, att, t, discord_user_id,
                                     ongoing.event)
        Give(k, s, m, a, e) ==
            [kind |-> k, success |-> s, msg |-> m, att |-> a, event |-> e]
    IN IF user = NoneId
       THEN Give("return", "false", MsgNotRegistered, att, NoneId)
       ELSE IF ongoing.error # NoneStr \/ ongoing.event = NoneId
       THEN Give("return", "false", ongoing.error, att, NoneId)
       ELSE IF r.raised # NoneStr
       THEN Give("raise", "na", r.raised, att, NoneId)
       ELSE IF r.error = MsgAlready
       THEN Give("return", "true", MsgAlready, r.att, ongoing.event)
       ELSE IF r.error # NoneStr
       THEN Give("return", "false", r.error, r.att, NoneId)
       ELSE Give("return", "true", MsgAttended, r.att, ongoing.event)

AutoAttendEventDiscord(discord_user_id) ==
    LET r == auto_attend_event_discord(users, events, attendance, now,
                                       discord_user_id)
    IN /\ attendance' = r.att
       /\ resp' = [NoResp EXCEPT
                     !.op = "auto_attend_event_discord",
                     !.did = discord_user_id, !.kind = r.kind,
                     !.success = r.success, !.msg = r.msg, !.event = r.event]
       /\ UNCHANGED <<users, events, now, reqs>>

\* POST /discord/admin/attend-for-user, which hands crud's tuple on unchanged
MarkAttendanceForUser(admin_discord_id, target_name, event_id) ==
    \E target_user \in FirstOf(get_user_by_name(users, target_name)) :
        LET r == mark_attendance_for_user(users, events, attendance, now,
                                          admin_discord_id, target_user,
                                          event_id)
        IN /\ attendance' = r.att
           /\ resp' = [NoResp EXCEPT
                         !.op = "mark_attendance_for_user",
                         !.did = admin_discord_id, !.name = target_name,
                         !.eid = event_id,
                         !.kind = IF r.raised # NoneStr THEN "raise"
                                  ELSE "return",
                         !.success = IF r.success THEN "true" ELSE "false",
                         !.msg = IF r.raised # NoneStr THEN r.raised ELSE r.msg,
                         !.event = r.event, !.user = r.target]
           /\ UNCHANGED <<users, events, now, reqs>>

----------------------------------------------------------------------------
(* The attendance coordinator over a store that already holds two Discord   *)
(* users and two events with overlapping windows                            *)

SeedUsers ==
    << [name |-> <<"a", "b">>, email |-> NoneStr, discord_user_id |-> "d1",
        discord_username |-> "n1", is_admin |-> FALSE, updated_at |-> NoneTime],
       [name |-> <<"a", "_">>, email |-> NoneStr, discord_user_id |-> "d2",
        discord_username |-> "n2", is_admin |-> FALSE, updated_at |-> NoneTime] >>

SeedEvents ==
    << [start_time |-> 0, end_time |-> 1, is_active |-> TRUE, user_id |-> 1],
       [start_time |-> 1, end_time |-> 2, is_active |-> TRUE, user_id |-> 1] >>

Init ==
    /\ users = SeedUsers
    /\ events = SeedEvents
    /\ attendance = EmptyBag
    /\ now = 0
    /\ resp = NoResp
    /\ reqs = [i \in 1..MaxReqs |-> Idle]

\* self-service marking: crud's two functions and the four handlers on them
Next ==
    \/ Tick
    \/ \E e \in EventIdArgs, u \in ActiveOnlyUpdates : UpdateEvent(e, u)
    \/ \E u \in UserIdArgs, e \in EventIdArgs : MarkAttendance(u, e)
    \/ \E d \in DiscordIds, e \in EventIdArgs : MarkAttendanceDiscord(d, e)
    \/ \E u \in UserIdArgs, e \in EventIdArgs : MarkEventAttendance(u, e)
    \/ \E d \in DiscordIds, e \in EventIdArgs : MarkDiscordAttendance(d, e)
    \/ \E d \in DiscordIds, e \in EventIdArgs : AttendEventDiscord(e, d)
    \/ \E d \in DiscordIds : AutoAttendEventDiscord(d)

Spec == Init /\ [][Next]_vars

\* marking on behalf of another user, with promotion and self-service marking
NextAdmin ==
    \/ Tick
    \/ \E u \in ActiveOnlyUpdates : UpdateEvent(1, u)
    \/ \E d \in DiscordIds, p \in Passwords : MakeUserAdmin(d, p)
    \/ \E u \in UserIds(users), e \in EventIds(events) : MarkAttendance(u, e)
    \/ \E d \in DiscordIds, n \in TargetNames,
          e \in {NoneId, 1, Len(events) + 1} : MarkAttendanceForUser(d, n, e)

SpecAdmin == Init /\ [][NextAdmin]_vars

----------------------------------------------------------------------------
(* Properties of self-service marking *)

SelfMarkOps ==
    {"mark_attendance", "mark_attendance_discord", "mark_event_attendance",
     "mark_discord_attendance", "attend_event_discord"}

\* the user and the event a marking response is about
RespUser(r) ==
    IF r.uid # NoneId THEN get_user(users, r.uid)
    ELSE get_user_by_discord_id(users, r.did)

RespEvent(r) ==
    IF r.op = "auto_attend_event_discord"
    THEN get_single_ongoing_event(events, now).event
    ELSE get_event(events, r.eid)

AtMostOneRow(att) ==
    \A u \in UserIds(users), e \in EventIds(events) : PairCount(att, u, e) <= 1

\* C1: for every existing user U and event E the relation never holds two
\* rows for (U, E), and a marking call (crud's functions or the handlers on
\* them) for a pair that already has its row, made while the event is still
\* attendable, adds no row, is not reported as an error and reports
\* AlreadyMarked.
C1_AlreadyMarkedNotAnError ==
    [][ /\ AtMostOneRow(attendance')
        /\ ( /\ resp'.op \in SelfMarkOps \cup {"auto_attend_event_discord"}
             /\ RespUser(resp') # NoneId
             /\ RespEvent(resp') # NoneId
             /\ attended(attendance, RespUser(resp'), RespEvent(resp'))
             /\ can_attend_event(events, RespEvent(resp'), now).can_attend )
           => ( /\ attendance' = attendance
                /\ resp'.kind = "return"
                /\ resp'.success # "false"
                /\ resp'.msg = MsgAlready ) ]_vars

OutsideWindow(e, t) ==
    t < events[e].start_time \/ t > events[e].end_time

\* C2 as stated: a marking call for an existing user and event made at
\* now < start_time or now > end_time is rejected with the reason "not
\* started" or "ended" and adds no row.
C2_RejectedWithTimeReason ==
    [][ ( /\ resp'.op \in SelfMarkOps
          /\ RespUser(resp') # NoneId
          /\ RespEvent(resp') # NoneId
          /\ OutsideWindow(RespEvent(resp'), now) )
        => ( /\ attendance' = attendance
             /\ resp'.kind # "raise"
             /\ resp'.success # "true"
             /\ resp'.msg \in {MsgNotStarted, MsgEnded} ) ]_vars

\* C2 amended: such a call is always rejected and adds no row; the reason is
\* "not started" (now < start_time) or "ended" (now > end_time) when the
\* event's is_active flag is true, and "not found" / "not found or inactive"
\* when it is false.
C2_RejectedOutsideWindow ==
    [][ ( /\ resp'.op \in SelfMarkOps
          /\ RespUser(resp') # NoneId
          /\ RespEvent(resp') # NoneId
          /\ OutsideWindow(RespEvent(resp'), now) )
        => LET e == RespEvent(resp')
           IN /\ attendance' = attendance
              /\ resp'.kind # "raise"
              /\ resp'.success # "true"
              /\ resp'.event = NoneId
              /\ IF ~events[e].is_active
                 THEN resp'.msg \in {MsgInactive, MsgEventNotFound}
                 ELSE IF now < events[e].start_time
                      THEN resp'.msg = MsgNotStarted
                      ELSE resp'.msg = MsgEnded ]_vars

\* C2 witness: the clock is past the end of an event another user attended
\* while it was active, and a user without a row has just been refused as
\* "ended"
C2_Witness ==
    /\ resp.op \in SelfMarkOps
    /\ resp.msg = MsgEnded
    /\ RespUser(resp) # NoneId
    /\ RespEvent(resp) # NoneId
    /\ now > events[RespEvent(resp)].end_time
    /\ ~attended(attendance, RespUser(resp), RespEvent(resp))
    /\ \E v \in UserIds(users) :
          v # RespUser(resp) /\ attended(attendance, v, RespEvent(resp))

----------------------------------------------------------------------------
(* Properties of marking on behalf of another user *)

\* C5: mark_attendance_for_user creates a row only if the calling identity
\* resolves to an existing user whose is_admin flag is true in the store at
\* the time of the call.
C5_OnlyAdminsCreateRows ==
    [][ (resp'.op = "mark_attendance_for_user" /\ attendance' # attendance)
        => LET caller == get_user_by_discord_id(users, resp'.did)
           IN caller # NoneId /\ users[caller].is_admin ]_vars

\* C5 witness: an admin has just marked another user's attendance, and the
\* other registered user is not an admin
C5_Witness ==
    /\ resp.op = "mark_attendance_for_user"
    /\ resp.success = "true"
    /\ attended(attendance, resp.user, resp.event)
    /\ \E u \in UserIds(users) : ~users[u].is_admin

----------------------------------------------------------------------------
(* Events: creation, update and the status queries *)

MsgNotAdminCreate == "Only admins can create events."

\* POST /events/: the body is validated, then crud.create_event is called
\* with a current_user keyword it does not take
CreateEvent(user_id, start_time, end_time) ==
    /\ resp' = [NoResp EXCEPT
                  !.op = "create_event", !.uid = user_id, !.kind = "raise",
                  !.msg = IF event_create_valid(start_time, end_time)
                          THEN TypeError ELSE ValidationError]
    /\ UNCHANGED <<users, events, attendance, now, reqs>>

\* POST /discord/events/create
create_event_discord(us, evs, discord_user_id, start_time, end_time) ==
    LET user == get_user_by_discord_id(us, discord_user_id)
        r == create_event(evs, start_time, end_time)
        Give(k, m, e) == [kind |-> k, msg |-> m, events |-> e]
    IN IF ~event_create_valid(start_time, end_time)
       THEN Give("raise", ValidationError, evs)
       ELSE IF user = NoneId THEN Give("http_error", MsgNotRegistered, evs)
       ELSE IF ~us[user].is_admin THEN Give("http_error", MsgNotAdminCreate, evs)
       ELSE IF ~r.ok THEN Give("raise", IntegrityError, evs)
       ELSE Give("return", NoneStr, r.events)

CreateEventDiscord(discord_user_id, start_time, end_time) ==
    LET r == create_event_discord(users, events, discord_user_id, start_time,
                                  end_time)
    IN /\ events' = r.events
       /\ resp' = [NoResp EXCEPT
                     !.op = "create_event_discord", !.did = discord_user_id,
                     !.kind = r.kind, !.msg = r.msg,
                     !.event = IF r.kind = "return" THEN Len(r.events)
                               ELSE NoneId]
       /\ UNCHANGED <<users, attendance, now, reqs>>

\* crud.can_attend_event
CanAttendEvent(event_id) ==
    LET r == can_attend_event(events, event_id, now)
    IN /\ resp' = [NoResp EXCEPT
                     !.op = "can_attend_event", !.eid = event_id,
                     !.success = IF r.can_attend THEN "true" ELSE "false",
                     !.msg = r.error]
       /\ UNCHANGED <<users, events, attendance, now, reqs>>

\* GET /events/{event_id}/status and GET /discord/event/{event_id}/status
GetEventStatus(event_id) ==
    LET r == get_event_status(events, event_id, now)
    IN /\ resp' = [NoResp EXCEPT
                     !.op = "get_event_status", !.eid = event_id,
                     !.kind = IF r = NoStatus THEN "http_error" ELSE "return",
                     !.success = IF r.can_attend THEN "true" ELSE "false",
                     !.msg = IF r = NoStatus THEN MsgEventNotFound
                             ELSE r.status]
       /\ UNCHANGED <<users, events, attendance, now, reqs>>

\* crud.get_single_ongoing_event
GetSingleOngoingEvent ==
    LET r == get_single_ongoing_event(events, now)
    IN /\ resp' = [NoResp EXCEPT
                     !.op = "get_single_ongoing_event", !.msg = r.error,
                     !.event = r.event]
       /\ UNCHANGED <<users, events, attendance, now, reqs>>

InitEvents ==
    /\ users = [SeedUsers EXCEPT ![1].is_admin = TRUE]
    /\ events = SeedEvents
    /\ attendance = EmptyBag
    /\ now = 0
    /\ resp = NoResp
    /\ reqs = [i \in 1..MaxReqs |-> Idle]

NextEvents ==
    \/ Tick
    \/ \E e \in EventIds(events), u \in TimeOnlyUpdates : UpdateEvent(e, u)
    \/ \E e \in EventIdArgs, u \in ActiveOnlyUpdates : UpdateEvent(e, u)
    \/ \E u \in UserIds(users), s \in Time, e \in Time : CreateEvent(u, s, e)
    \/ \E d \in DiscordIds, s \in Time, e \in Time : CreateEventDiscord(d, s, e)
    \/ \E e \in EventIdArgs : CanAttendEvent(e)
    \/ \E e \in EventIdArgs : GetEventStatus(e)
    \/ GetSingleOngoingEvent

SpecEvents == InitEvents /\ [][NextEvents]_vars

\* C3: can_attend is true exactly when the event's is_active flag is true
\* and start_time <= now <= end_time, both ends included; an event whose
\* is_active is false is never attendable.
C3_CanAttendIffActiveInWindow ==
    [][ resp'.op \in {"can_attend_event", "get_event_status"}
        => ( resp'.success = "true"
             <=> /\ resp'.eid \in EventIds(events)
                 /\ events[resp'.eid].is_active
                 /\ events[resp'.eid].start_time <= now
                 /\ now <= events[resp'.eid].end_time ) ]_vars

\* C3 witness: the engine has just answered can_attend = true at the very
\* instant now = end_time of a window that is more than one instant long
C3_Witness ==
    /\ resp.op = "can_attend_event"
    /\ resp.success = "true"
    /\ resp.eid \in EventIds(events)
    /\ now = events[resp.eid].end_time
    /\ now > events[resp.eid].start_time

\* C9: every persisted event has end_time > start_time.
C9_EndAfterStart ==
    \A e \in EventIds(events) : events[e].end_time > events[e].start_time

\* C10: get_single_ongoing_event over the set S of events with is_active and
\* start_time <= now <= end_time gives the "none running" error when S is
\* empty, the different "ambiguous" error when S has two or more members,
\* and the one member of S with no error when S has one member.
C10_SingleOngoingEvent ==
    [][ resp'.op = "get_single_ongoing_event"
        => LET S == {e \in EventIds(events) :
                        /\ events[e].is_active
                        /\ events[e].start_time <= now
                        /\ now <= events[e].end_time}
           IN /\ MsgNoneRunning # MsgAmbiguous
              /\ S = {} => (resp'.msg = MsgNoneRunning /\ resp'.event = NoneId)
              /\ Cardinality(S) >= 2
                    => (resp'.msg = MsgAmbiguous /\ resp'.event = NoneId)
              /\ Cardinality(S) = 1
                    => (resp'.msg = NoneStr /\ resp'.event \in S) ]_vars

\* C10 witness: two events are ongoing and the call has just given the
\* "ambiguous" error
C10_Witness ==
    /\ resp.op = "get_single_ongoing_event"
    /\ resp.msg = MsgAmbiguous
    /\ Cardinality(get_active_events(events, now)) >= 2

----------------------------------------------------------------------------
(* Identity reconciliation and the name registry *)

MsgEmailRegistered == "Email already registered"
MsgNotRegisteredFirst == "User not found. Please register first."
MsgNameTaken == "Name is already taken. Please choose another one."
MsgNameSet == "Name set successfully!"

\* the unique constraints of table users without the one on discord_user_id
unique_violation_no_discord(us, self, row) ==
    \E i \in UserIds(us) \ {self} :
        \/ us[i].name = row.name
        \/ (row.email # NoneStr /\ us[i].email = row.email)

\* the unique constraints of table users without the one on name
unique_violation_no_name(us, self, row) ==
    \E i \in UserIds(us) \ {self} :
        \/ (row.email # NoneStr /\ us[i].email = row.email)
        \/ (row.discord_user_id # NoneStr
            /\ us[i].discord_user_id = row.discord_user_id)

\* the unique constraints of table users: name, email, discord_user_id (NULLs
\* never collide); self is the row being updated, NoneId for an insert
unique_violation(us, self, row) ==
    \E i \in UserIds(us) \ {self} :
        \/ us[i].name = row.name
        \/ (row.email # NoneStr /\ us[i].email = row.email)
        \/ (row.discord_user_id # NoneStr
            /\ us[i].discord_user_id = row.discord_user_id)

users_insert(us, row) ==
    IF unique_violation(us, NoneId, row) THEN [ok |-> FALSE, users |-> us]
    ELSE [ok |-> TRUE, users |-> Append(us, row)]

\* updated_at holds what crud assigns to it (update_user, set_user_name); the
\* column's onupdate default is not modelled
users_update(us, user_id, row) ==
    IF unique_violation(us, user_id, row) THEN [ok |-> FALSE, users |-> us]
    ELSE [ok |-> TRUE, users |-> [us EXCEPT ![user_id] = row]]

\* create_discord_user: a new row, is_admin at its default
create_discord_user(us, user) ==
    users_insert(us, [name |-> user.name, email |-> user.email,
                      discord_user_id |-> user.discord_user_id,
                      discord_username |-> user.discord_username,
                      is_admin |-> FALSE, updated_at |-> NoneTime])

\* the field-by-field comparison of upsert_discord_user
upsert_changes(row, user) ==
    (IF row.name # user.name THEN {"name"} ELSE {})
    \cup (IF row.discord_username # user.discord_username
          THEN {"discord_username"} ELSE {})
    \cup (IF user.email # NoneStr /\ row.email # user.email
          THEN {"email"} ELSE {})

\* the columns in changes overwritten with the payload's values
apply_changes(row, user, changes) ==
    [row EXCEPT
        !.name = IF "name" \in changes THEN user.name ELSE @,
        !.discord_username = IF "discord_username" \in changes
                             THEN user.discord_username ELSE @,
        !.email = IF "email" \in changes THEN user.email ELSE @]

\* upsert_discord_user once its lookup gave existing_user (NoneId: no row)
\* and its comparison gave changes
upsert_commit(us, user, existing_user, changes) ==
    LET upd == users_update(us, existing_user,
                            apply_changes(us[existing_user], user, changes))
        ins == create_discord_user(us, user)
        Give(u, id, n, c, x) ==
            [users |-> u, user |-> id, is_new |-> n, changes |-> c,
             raised |-> x]
    IN IF existing_user # NoneId
       THEN IF changes = {} THEN Give(us, existing_user, FALSE, {}, NoneStr)
            ELSE IF upd.ok
                 THEN Give(upd.users, existing_user, FALSE, changes, NoneStr)
                 ELSE Give(us, NoneId, FALSE, {}, IntegrityError)
       ELSE IF ins.ok THEN Give(ins.users, Len(ins.users), TRUE, {}, NoneStr)
            ELSE Give(us, NoneId, FALSE, {}, IntegrityError)

upsert_discord_user(us, user) ==
    LET existing_user == get_user_by_discord_id(us, user.discord_user_id)
        changes == IF existing_user = NoneId THEN {}
                   ELSE upsert_changes(us[existing_user], user)
    IN upsert_commit(us, user, existing_user, changes)

check_name_available(us, name, exclude_user_id) ==
    {i \in UserIds(us) :
        ilike(us[i].name, name)
        /\ (exclude_user_id # NoneId => i # exclude_user_id)} = {}

set_user_name(us, t, discord_user_id, name) ==
    LET user == get_user_by_discord_id(us, discord_user_id)
        upd == users_update(us, user, [us[user] EXCEPT !.name = Lower(name),
                                                       !.updated_at = t])
        Give(u, id, m, x) == [users |-> u, user |-> id, msg |-> m, raised |-> x]
    IN IF user = NoneId THEN Give(us, NoneId, MsgNotRegisteredFirst, NoneStr)
       ELSE IF ~check_name_available(us, name, user)
       THEN Give(us, NoneId, MsgNameTaken, NoneStr)
       ELSE IF ~upd.ok THEN Give(us, NoneId, NoneStr, IntegrityError)
       ELSE Give(upd.users, user, MsgNameSet, NoneStr)

\* update_user: setattr of every field the body carries (NoName / NoneStr:
\* the body does not carry the field), then updated_at
\* update_user over a body that also carried is_admin = False
update_user_clears_admin(us, t, user_id, upd) ==
    LET row == [us[user_id] EXCEPT
                    !.name = IF upd.name = NoName THEN @ ELSE upd.name,
                    !.email = IF upd.email = NoneStr THEN @ ELSE upd.email,
                    !.is_admin = FALSE,
                    !.updated_at = t]
        w == users_update(us, user_id, row)
    IN IF get_user(us, user_id) = NoneId
       THEN [users |-> us, user |-> NoneId, raised |-> NoneStr]
       ELSE IF w.ok THEN [users |-> w.users, user |-> user_id, raised |-> NoneStr]
            ELSE [users |-> us, user |-> NoneId, raised |-> IntegrityError]

update_user(us, t, user_id, upd) ==
    LET row == [us[user_id] EXCEPT
                    !.name = IF upd.name = NoName THEN @ ELSE upd.name,
                    !.email = IF upd.email = NoneStr THEN @ ELSE upd.email,
                    !.updated_at = t]
        w == users_update(us, user_id, row)
    IN IF get_user(us, user_id) = NoneId
       THEN [users |-> us, user |-> NoneId, raised |-> NoneStr]
       ELSE IF w.ok THEN [users |-> w.users, user |-> user_id, raised |-> NoneStr]
            ELSE [users |-> us, user |-> NoneId, raised |-> IntegrityError]

\* create_user reads user.discord_user_id, a field UserCreate does not have
create_user(us, user) == [users |-> us, raised |-> AttributeError]

\* POST /auth/register; an absent email is looked up as "email IS NULL"
register_user(us, user) ==
    LET r == create_user(us, user)
    IN IF get_user_by_email(us, user.email) # NoneId
       THEN [users |-> us, kind |-> "http_error", msg |-> MsgEmailRegistered]
       ELSE IF r.raised # NoneStr
            THEN [users |-> r.users, kind |-> "raise", msg |-> r.raised]
            ELSE [users |-> r.users, kind |-> "return", msg |-> NoneStr]

UpsertPayloads ==
    [name : Names, discord_user_id : {"d1", "d2"},
     discord_username : DiscordNames, email : {NoneStr, "e1"}]

UserUpdates == [name : Names \cup {NoName}, email : {NoneStr, "e1"}]

Registrations == [name : Names, email : {NoneStr, "e1"}]

SamePayload(r, user) ==
    /\ r.op = "upsert_discord_user"
    /\ r.name = user.name
    /\ r.did = user.discord_user_id
    /\ r.dname = user.discord_username
    /\ r.email = user.email

\* POST /discord/users/register
UpsertDiscordUser(user) ==
    LET r == upsert_discord_user(users, user)
    IN /\ Len(r.users) <= MaxUsers
       /\ users' = r.users
       /\ resp' = [NoResp EXCEPT
                     !.op = "upsert_discord_user", !.name = user.name,
                     !.did = user.discord_user_id,
                     !.dname = user.discord_username, !.email = user.email,
                     !.kind = IF r.raised # NoneStr THEN "raise" ELSE "return",
                     !.msg = r.raised, !.user = r.user, !.is_new = r.is_new,
                     !.changes = r.changes, !.again = SamePayload(resp, user)]
       /\ UNCHANGED <<events, attendance, now, reqs>>

\* crud.set_user_name
SetUserName(discord_user_id, name) ==
    LET r == set_user_name(users, now, discord_user_id, name)
    IN /\ users' = r.users
       /\ resp' = [NoResp EXCEPT
                     !.op = "set_user_name", !.did = discord_user_id,
                     !.name = name,
                     !.kind = IF r.raised # NoneStr THEN "raise" ELSE "return",
                     !.success = IF r.user # NoneId THEN "true" ELSE "false",
                     !.msg = IF r.raised # NoneStr THEN r.raised ELSE r.msg,
                     !.user = r.user]
       /\ UNCHANGED <<events, attendance, now, reqs>>

\* PUT /users/me; current_user is an existing user
UpdateUser(user_id, upd) ==
    LET r == update_user(users, now, user_id, upd)
    IN /\ user_id \in UserIds(users)
       /\ users' = r.users
       /\ resp' = [NoResp EXCEPT
                     !.op = "update_user", !.uid = user_id, !.name = upd.name,
                     !.email = upd.email,
                     !.kind = IF r.raised # NoneStr THEN "raise" ELSE "return",
                     !.msg = r.raised, !.user = r.user]
       /\ UNCHANGED <<events, attendance, now, reqs>>

\* POST /auth/register
RegisterUser(user) ==
    LET r == register_user(users, user)
    IN /\ users' = r.users
       /\ resp' = [NoResp EXCEPT
                     !.op = "register_user", !.name = user.name,
                     !.email = user.email, !.kind = r.kind, !.msg = r.msg]
       /\ UNCHANGED <<events, attendance, now, reqs>>

\* crud.check_name_available
CheckNameAvailable(name, exclude_user_id) ==
    /\ resp' = [NoResp EXCEPT
                  !.op = "check_name_available", !.name = name,
                  !.uid = exclude_user_id,
                  !.success = IF check_name_available(users, name,
                                                      exclude_user_id)
                              THEN "true" ELSE "false"]
    /\ UNCHANGED <<users, events, attendance, now, reqs>>

InitUsers ==
    /\ users = << >>
    /\ events = SeedEvents
    /\ attendance = EmptyBag
    /\ now = 0
    /\ resp = NoResp
    /\ reqs = [i \in 1..MaxReqs |-> Idle]

NextUsers ==
    \/ \E p \in UpsertPayloads : UpsertDiscordUser(p)
    \/ \E d \in DiscordIds, n \in Names : SetUserName(d, n)
    \/ \E u \in UserIdArgs, p \in UserUpdates : UpdateUser(u, p)
    \/ \E p \in Registrations : RegisterUser(p)
    \/ \E n \in Names, x \in UserIdArgs \cup {NoneId} : CheckNameAvailable(n, x)

SpecUsers == InitUsers /\ [][NextUsers]_vars

UsersWithDiscordId(us, d) == {i \in UserIds(us) : us[i].discord_user_id = d}

\* C6: upsert_discord_user called twice in sequence with an identical
\* payload: the second call returns is_new = false with no changed fields,
\* modifies no field of any stored user, and the store holds exactly one
\* user with that external id.
C6_SecondUpsertIsNoOp ==
    [][ (resp'.op = "upsert_discord_user" /\ resp'.again)
        => ( /\ resp'.kind = "return"
             /\ ~resp'.is_new
             /\ resp'.changes = {}
             /\ users' = users
             /\ Cardinality(UsersWithDiscordId(users', resp'.did)) = 1 ) ]_vars

\* C8: no two distinct users have names that are equal ignoring case.
C8_NamesUniqueIgnoringCase ==
    \A i, j \in UserIds(users) :
        i # j => Lower(users[i].name) # Lower(users[j].name)

----------------------------------------------------------------------------
(* Concurrent requests: each request runs in its own session, so the reads
   of a crud function and its commit are two steps, and other requests may
   take steps in between *)

InFlight(i, op, uid, did, eid) ==
    [reqs EXCEPT ![i] = [Idle EXCEPT !.pc = "commit", !.op = op, !.uid = uid,
                                     !.did = did, !.eid = eid]]

\* mark_attendance up to its append
MarkAttendanceBegin(i, user_id, event_id) ==
    LET r == mark_attendance_check(users, events, attendance, now,
                                   user_id, event_id)
    IN /\ reqs[i].pc = "idle"
       /\ IF r.append
          THEN /\ reqs' = InFlight(i, "mark_attendance", user_id, NoneStr,
                                   event_id)
               /\ resp' = resp
          ELSE /\ reqs' = reqs
               /\ resp' = Outcome("mark_attendance", user_id, NoneStr, event_id,
                                  [event |-> r.event, error |-> r.error,
                                   raised |-> NoneStr])
       /\ UNCHANGED <<users, events, attendance, now>>

\* mark_attendance_discord up to its append
MarkAttendanceDiscordBegin(i, discord_user_id, event_id) ==
    LET r == mark_attendance_discord_check(users, events, attendance, now,
                                           discord_user_id, event_id)
    IN /\ reqs[i].pc = "idle"
       /\ IF r.append
          THEN /\ reqs' = InFlight(i, "mark_attendance_discord", r.user,
                                   discord_user_id, event_id)
               /\ resp' = resp
          ELSE /\ reqs' = reqs
               /\ resp' = [Outcome("mark_attendance_discord", NoneId,
                                   discord_user_id, event_id,
                                   [event |-> r.event, error |-> r.error,
                                    raised |-> NoneStr])
                           EXCEPT !.user = r.user]
       /\ UNCHANGED <<users, events, attendance, now>>

\* db.commit() of a marking request: the INSERT into user_event_attendance
MarkAttendanceCommit(i) ==
    LET q == reqs[i]
        ins == attendance_insert(attendance, q.uid, q.eid, now)
    IN /\ q.pc = "commit"
       /\ q.op \in {"mark_attendance", "mark_attendance_discord"}
       /\ attendance' = ins.att
       /\ resp' = [Outcome(q.op,
                           IF q.op = "mark_attendance" THEN q.uid ELSE NoneId,
                           q.did, q.eid,
                           [event |-> IF ins.ok THEN q.eid ELSE NoneId,
                            error |-> NoneStr,
                            raised |-> IF ins.ok THEN NoneStr
                                       ELSE IntegrityError])
                   EXCEPT !.user = IF q.op = "mark_attendance" THEN NoneId
                                   ELSE q.uid]
       /\ reqs' = [reqs EXCEPT ![i] = Idle]
       /\ UNCHANGED <<users, events, now>>

Slots == 1..MaxReqs

NextConc ==
    \/ Tick
    \/ \E i \in Slots, u \in UserIds(users), e \in EventIds(events) :
           MarkAttendanceBegin(i, u, e)
    \/ \E i \in Slots, d \in {"d1"}, e \in EventIds(events) :
           MarkAttendanceDiscordBegin(i, d, e)
    \/ \E i \in Slots : MarkAttendanceCommit(i)

SpecConc == Init /\ [][NextConc]_vars

CommitTried(r) ==
    /\ r.op \in {"mark_attendance", "mark_attendance_discord"}
    /\ \/ r.kind = "raise"
       \/ (r.kind = "return" /\ r.msg = NoneStr)

\* C4: when several mark_attendance calls for the same (user, event) pair,
\* none of which had its row at the start, run concurrently while the event
\* is attendable, every interleaving ends with exactly one row for the pair:
\* no state holds two rows for a pair, and once a request has tried its
\* commit the pair has exactly one row.
C4_ConcurrentMarksOneRow ==
    /\ \A u \in UserIds(users), e \in EventIds(events) :
           PairCount(attendance, u, e) <= 1
    /\ CommitTried(resp) => PairCount(attendance, RespUser(resp), resp.eid) = 1

\* two requests passed the check for the same pair; the second commit was
\* refused by the primary key
C4_Witness ==
    /\ resp.op = "mark_attendance"
    /\ resp.kind = "raise"
    /\ resp.msg = IntegrityError
    /\ PairCount(attendance, resp.uid, resp.eid) = 1

UpsertPayloadsConc ==
    [name : Names, discord_user_id : {"d1", "d2"},
     discord_username : {"n1"}, email : {NoneStr}]

UpsertResp(user, r) ==
    [NoResp EXCEPT
        !.op = "upsert_discord_user", !.name = user.name,
        !.did = user.discord_user_id, !.dname = user.discord_username,
        !.email = user.email,
        !.kind = IF r.raised # NoneStr THEN "raise" ELSE "return",
        !.msg = r.raised, !.user = r.user, !.is_new = r.is_new,
        !.changes = r.changes]

\* upsert_discord_user up to its commit: the lookup and the comparison
UpsertBegin(i, user) ==
    LET existing_user == get_user_by_discord_id(users, user.discord_user_id)
        changes == IF existing_user = NoneId THEN {}
                   ELSE upsert_changes(users[existing_user], user)
    IN /\ reqs[i].pc = "idle"
       /\ IF existing_user # NoneId /\ changes = {}
          THEN /\ reqs' = reqs
               /\ resp' = UpsertResp(user, upsert_commit(users, user,
                                                         existing_user, {}))
          ELSE /\ reqs' = [reqs EXCEPT ![i] =
                              [Idle EXCEPT
                                  !.pc = "commit",
                                  !.op = "upsert_discord_user",
                                  !.uid = existing_user,
                                  !.did = user.discord_user_id,
                                  !.name = user.name,
                                  !.dname = user.discord_username,
                                  !.email = user.email,
                                  !.changes = changes]]
               /\ resp' = resp
       /\ UNCHANGED <<users, events, attendance, now>>

\* db.commit() of an upsert: the UPDATE of the changed columns or the INSERT
UpsertCommit(i) ==
    LET q == reqs[i]
        user == [name |-> q.name, discord_user_id |-> q.did,
                 discord_username |-> q.dname, email |-> q.email]
        r == upsert_commit(users, user, q.uid, q.changes)
    IN /\ q.pc = "commit"
       /\ q.op = "upsert_discord_user"
       /\ Len(r.users) <= MaxUsers
       /\ users' = r.users
       /\ resp' = UpsertResp(user, r)
       /\ reqs' = [reqs EXCEPT ![i] = Idle]
       /\ UNCHANGED <<events, attendance, now>>

NextConcUsers ==
    \/ \E i \in Slots, p \in UpsertPayloadsConc : UpsertBegin(i, p)
    \/ \E i \in Slots : UpsertCommit(i)

SpecConcUsers == InitUsers /\ [][NextConcUsers]_vars

\* C7: in every reachable state, including every interleaving of concurrent
\* upsert_discord_user calls, at most one user has any given external id.
C7_OneUserPerDiscordId ==
    \A d \in DiscordIds : Cardinality(UsersWithDiscordId(users, d)) <= 1

\* two upserts missed the lookup for one external id; the second INSERT was
\* refused on discord_user_id (the name it carried was free)
C7_Witness ==
    /\ resp.op = "upsert_discord_user"
    /\ resp.kind = "raise"
    /\ UsersWithDiscordId(users, resp.did) # {}
    /\ \A i \in UserIds(users) : users[i].name # resp.name
    /\ \E i \in Slots : reqs[i].pc = "idle"

----------------------------------------------------------------------------
(* Further properties of marking on behalf of another user *)

\* C11: for every admin user A, mark_attendance_for_user called by A with A's
\* own name as target is rejected and creates no attendance row, whatever
\* the state of the event, whether or not an event id is supplied, and
\* whether or not A has already attended.
C11_SelfTargetRejected ==
    [][ ( /\ resp'.op = "mark_attendance_for_user"
          /\ get_user_by_discord_id(users, resp'.did) # NoneId
          /\ users[get_user_by_discord_id(users, resp'.did)].is_admin
          /\ users[get_user_by_discord_id(users, resp'.did)].name = resp'.name )
        => ( /\ attendance' = attendance
             /\ resp'.kind = "return"
             /\ resp'.success = "false" ) ]_vars

----------------------------------------------------------------------------
(* Properties of the name registry *)

\* C12: check_name_available(name, exclude) returns false exactly when some
\* user other than the excluded one has a stored name equal to the proposed
\* name ignoring case, and true otherwise.
C12_AvailableIffNoEqualName ==
    [][ resp'.op = "check_name_available"
        => ( (resp'.success = "false")
             <=> \E i \in UserIds(users) :
                    /\ (resp'.uid # NoneId => i # resp'.uid)
                    /\ Lower(users[i].name) = Lower(resp'.name) ) ]_vars
\* C13: set_user_name(externalId, name): with no user of that external id
\* it returns the 'not registered' rejection; if another user holds the name
\* ignoring case it returns the 'already taken' rejection and changes no
\* stored field; otherwise the caller's stored name becomes the lowercased
\* proposed name, updated_at is refreshed and no other user is modified.
C13_SetUserName ==
    [][ resp'.op = "set_user_name"
        => LET u == get_user_by_discord_id(users, resp'.did)
               held == \E i \in UserIds(users) \ {u} :
                           Lower(users[i].name) = Lower(resp'.name)
           IN IF u = NoneId
              THEN /\ resp'.msg = MsgNotRegisteredFirst
                   /\ resp'.success = "false"
                   /\ users' = users
              ELSE IF held
              THEN /\ resp'.msg = MsgNameTaken
                   /\ resp'.success = "false"
                   /\ users' = users
              ELSE /\ resp'.kind = "return"
                   /\ resp'.success = "true"
                   /\ users' = [users EXCEPT ![u].name = Lower(resp'.name),
                                             ![u].updated_at = now] ]_vars
----------------------------------------------------------------------------
(* Properties of the admin registry *)

\* C14: make_user_admin(externalId, secret) fails with no state change if
\* the secret is not the admin secret; otherwise fails with no state change
\* if no user has that external id; otherwise, for a user who is already
\* admin, returns success = false with an explanatory message and no state
\* change; otherwise sets that user's is_admin to true, returns success =
\* true and changes no other user.
C14_MakeUserAdmin ==
    [][ resp'.op = "make_user_admin"
        => LET u == get_user_by_discord_id(users, resp'.did)
           IN /\ events' = events
              /\ attendance' = attendance
              /\ IF resp'.password # AdminPassword \/ u = NoneId
                 THEN /\ resp'.success = "false"
                      /\ resp'.user = NoneId
                      /\ resp'.msg = IF resp'.password # AdminPassword
                                     THEN MsgInvalidPassword
                                     ELSE MsgUserNotFound
                      /\ users' = users
                 ELSE IF users[u].is_admin
                 THEN /\ resp'.kind = "return"
                      /\ resp'.success = "false"
                      /\ resp'.msg = MsgAlreadyAdmin
                      /\ users' = users
                 ELSE /\ resp'.kind = "return"
                      /\ resp'.success = "true"
                      /\ resp'.user = u
                      /\ users' = [users EXCEPT ![u].is_admin = TRUE] ]_vars

\* a user has just been promoted with the right secret while the other
\* registered user stays a non-admin
C14_Witness ==
    /\ resp.op = "make_user_admin"
    /\ resp.password = AdminPassword
    /\ resp.success = "true"
    /\ users[resp.user].is_admin
    /\ \E v \in UserIds(users) : v # resp.user /\ ~users[v].is_admin
\* Users, their names and their roles together: registration through the
\* upsert, renaming, promotion and marking
NextRoles ==
    \/ \E p \in UpsertPayloadsConc : UpsertDiscordUser(p)
    \/ \E d \in {"d1", "d2"}, n \in Names : SetUserName(d, n)
    \/ \E u \in UserIds(users), p \in UserUpdates : UpdateUser(u, p)
    \/ \E d \in DiscordIds, p \in Passwords : MakeUserAdmin(d, p)
    \/ \E u \in UserIds(users) : MarkAttendance(u, 1)

SpecRoles == InitUsers /\ [][NextRoles]_vars

\* C15: every user is created with is_admin = false, and a user whose
\* is_admin is true keeps it true in every later state, under any sequence
\* of upsert, set_user_name, update_user, promotion and marking operations.
C15_IsAdminMonotonic ==
    [][ /\ \A u \in UserIds(users) : users[u].is_admin => users'[u].is_admin
        /\ \A u \in UserIds(users') \ UserIds(users) : ~users'[u].is_admin
      ]_vars

\* an admin has just been renamed by update_user and is still an admin
C15_Witness ==
    /\ resp.op = "update_user"
    /\ resp.user # NoneId
    /\ resp.name # NoName
    /\ users[resp.user].name = resp.name
    /\ users[resp.user].is_admin
----------------------------------------------------------------------------
(* Properties of direct registration *)

\* C16: direct registration returns either the newly created user or a
\* DuplicateEmail / DuplicateName rejection that creates no user: it is
\* rejected as DuplicateEmail exactly when another user holds the supplied
\* email, as DuplicateName when another user holds the name, and succeeds
\* for a request whose name and email (an absent email included) are held
\* by no existing user.
C16_RegistrationOutcome ==
    [][ resp'.op = "register_user"
        => LET dup_email == /\ resp'.email # NoneStr
                            /\ \E i \in UserIds(users) :
                                   users[i].email = resp'.email
               dup_name == \E i \in UserIds(users) :
                               Lower(users[i].name) = Lower(resp'.name)
           IN IF dup_email
              THEN /\ resp'.kind = "http_error"
                   /\ resp'.msg = MsgEmailRegistered
                   /\ users' = users
              ELSE IF dup_name
              THEN /\ resp'.kind = "http_error"
                   /\ users' = users
              ELSE /\ resp'.kind = "return"
                   /\ Len(users') = Len(users) + 1
                   /\ users'[Len(users')].name = resp'.name
                   /\ users'[Len(users')].email = resp'.email ]_vars
----------------------------------------------------------------------------
(* Properties of the status engine *)

\* C17: for an existing event with is_active = true the status query returns
\* exactly one of three values: upcoming when now < start_time, active when
\* start_time <= now <= end_time, ended when now > end_time; the three cases
\* are mutually exclusive and exhaustive.
C17_StatusTrichotomy ==
    [][ ( /\ resp'.op = "get_event_status"
          /\ resp'.eid \in EventIds(events)
          /\ events[resp'.eid].is_active )
        => LET e == events[resp'.eid]
           IN /\ resp'.kind = "return"
              /\ resp'.msg \in {MsgNotStarted, MsgActive, MsgEnded}
              /\ (resp'.msg = MsgNotStarted <=> now < e.start_time)
              /\ (resp'.msg = MsgActive
                  <=> (e.start_time <= now /\ now <= e.end_time))
              /\ (resp'.msg = MsgEnded <=> now > e.end_time) ]_vars
----------------------------------------------------------------------------
(* Renaming twice *)

\* C18: after a user's set-name call succeeds, a further set-name call by
\* the same user made before 30 days have elapsed (here: at the same
\* instant, as the very next call) is rejected with success = false and
\* leaves the stored name unchanged.
C18_RenameRateLimited ==
    [][ ( /\ resp.op = "set_user_name"
          /\ resp.success = "true"
          /\ resp'.op = "set_user_name"
          /\ resp'.did = resp.did
          /\ now' = now )
        => ( /\ resp'.success = "false"
             /\ users' = users ) ]_vars
----------------------------------------------------------------------------
(* Outcome of a commit that loses a race *)

\* C19: when the insert of a marking request hits the uniqueness constraint
\* on the (user, event) pair because a concurrent request inserted the pair
\* after this request's existence check, the request completes with the
\* AlreadyMarked outcome and not with a raised error; likewise an upsert
\* whose insert hits the external-id constraint completes without a raised
\* error.
C19_LostRaceIsAlreadyMarked ==
    [][ \A i \in Slots :
          ( /\ reqs[i].pc = "commit"
            /\ reqs'[i].pc = "idle" )
          => /\ ( ( /\ reqs[i].op \in {"mark_attendance",
                                       "mark_attendance_discord"}
                    /\ attended(attendance, reqs[i].uid, reqs[i].eid) )
                  => ( /\ resp'.kind = "return"
                       /\ resp'.msg = MsgAlready
                       /\ attendance' = attendance ) )
             /\ ( ( /\ reqs[i].op = "upsert_discord_user"
                    /\ reqs[i].uid = NoneId
                    /\ UsersWithDiscordId(users, reqs[i].did) # {} )
                  => resp'.kind = "return" ) ]_vars
----------------------------------------------------------------------------
(* Order of the refusals of marking on behalf of another user *)

Ongoing(evs, t) ==
    {e \in EventIds(evs) :
        evs[e].is_active /\ evs[e].start_time <= t /\ t <= evs[e].end_time}

\* the refusal expected for caller a, the users T the target name resolves
\* to, the resolved target tg and the requested event, by the first failing
\* check in the order: admin not found, caller not admin, target not found,
\* admin equals target, default-event resolution, event not found, event not
\* attendable, target already attended; NoneStr when no check fails
FirstRefusal(a, T, tg, event_id) ==
    LET S == Ongoing(events, now)
        e == IF event_id # NoneId THEN event_id
             ELSE IF S = {} THEN NoneId ELSE CHOOSE x \in S : TRUE
    IN IF a = NoneId THEN MsgAdminNotFound
       ELSE IF ~users[a].is_admin THEN MsgOnlyAdmins
       ELSE IF T = {} THEN MsgTargetNotFound
       ELSE IF tg = a THEN MsgSelf
       ELSE IF event_id = NoneId /\ S = {} THEN MsgNoneRunning
       ELSE IF event_id = NoneId /\ Cardinality(S) > 1 THEN MsgAmbiguous
       ELSE IF e \notin EventIds(events) THEN MsgEventIdNotFound
       ELSE IF ~events[e].is_active THEN MsgInactive
       ELSE IF now < events[e].start_time THEN MsgNotStarted
       ELSE IF now > events[e].end_time THEN MsgEnded
       ELSE IF attended(attendance, tg, e) THEN MsgTargetAlready
       ELSE NoneStr

\* C20: mark_attendance_for_user evaluates its refusals in a fixed order
\* (admin not found, caller not admin, target not found, admin equals
\* target, default-event resolution, event not found, event not attendable,
\* target already attended) and returns the outcome of the first check that
\* fails; when none fails it marks.
C20_RefusalOrder ==
    [][ resp'.op = "mark_attendance_for_user"
        => LET a == get_user_by_discord_id(users, resp'.did)
               T == get_user_by_name(users, resp'.name)
               m == FirstRefusal(a, T, resp'.user, resp'.eid)
           IN /\ resp'.kind = "return"
              /\ (a # NoneId /\ users[a].is_admin /\ T # {}) => resp'.user \in T
              /\ IF m # NoneStr
                 THEN /\ resp'.success = "false"
                      /\ resp'.msg = m
                      /\ attendance' = attendance
                 ELSE /\ resp'.success = "true"
                      /\ attendance' # attendance ]_vars

\* an admin named a target nobody resolves to while no event was running,
\* with no event id, and was told the target was not found
C20_Witness ==
    /\ resp.op = "mark_attendance_for_user"
    /\ resp.eid = NoneId
    /\ resp.msg = MsgTargetNotFound
    /\ Ongoing(events, now) = {}
    /\ get_user_by_discord_id(users, resp.did) # NoneId
    /\ users[get_user_by_discord_id(users, resp.did)].is_admin
----------------------------------------------------------------------------
(* Marking on behalf of a target who already attended *)

\* C21: when an admin calls mark_attendance_for_user for a target who
\* already has an attendance row for the resolved, currently attendable
\* event, the operation yields the AlreadyMarked outcome of the self-service
\* algorithm (idempotent, not an error) and leaves the attendance relation
\* and its attended_at value unchanged.
C21_AdminAlreadyMarked ==
    [][ LET a == get_user_by_discord_id(users, resp'.did)
            S == Ongoing(events, now)
            e == IF resp'.eid # NoneId THEN resp'.eid
                 ELSE IF Cardinality(S) = 1 THEN CHOOSE x \in S : TRUE
                      ELSE NoneId
        IN ( /\ resp'.op = "mark_attendance_for_user"
             /\ a # NoneId
             /\ users[a].is_admin
             /\ resp'.user \notin {NoneId, a}
             /\ e \in S
             /\ attended(attendance, resp'.user, e) )
           => ( /\ attendance' = attendance
                /\ resp'.kind = "return"
                /\ resp'.success # "false" ) ]_vars
\* C22: the admin-on-behalf path resolves its target by case-insensitive
\* exact match on the stored name: the user it marks attendance for has a
\* stored name equal, ignoring case only, to the supplied target name, and
\* if no user has such a name the call is rejected as 'target not found'
\* with no row created; underscore and hyphen in names included.
C22_TargetByExactName ==
    [][ LET a == get_user_by_discord_id(users, resp'.did)
            named == {u \in UserIds(users) :
                         Lower(users[u].name) = Lower(resp'.name)}
        IN ( /\ resp'.op = "mark_attendance_for_user"
             /\ a # NoneId
             /\ users[a].is_admin )
           => ( /\ named = {} => ( /\ resp'.msg = MsgTargetNotFound
                                   /\ resp'.success = "false"
                                   /\ attendance' = attendance )
                /\ attendance' # attendance => resp'.user \in named ) ]_vars
----------------------------------------------------------------------------
(* Properties of the upsert on an existing external id *)

\* C23: for an existing external id, upsert_discord_user returns as changed
\* fields exactly the subset of {name, discord_username, email} whose stored
\* value differs from the proposed value (email compared and overwritten
\* only when the proposed email is non-empty); afterwards each listed field
\* equals the proposed value, every unlisted field is unchanged, and nothing
\* is committed when the list is empty.
C23_UpsertChangedFields ==
    [][ LET u == get_user_by_discord_id(users, resp'.did)
            differs ==
                {f \in {"name", "discord_username", "email"} :
                    \/ (f = "name" /\ users[u].name # resp'.name)
                    \/ (f = "discord_username"
                        /\ users[u].discord_username # resp'.dname)
                    \/ (f = "email" /\ resp'.email # NoneStr
                        /\ users[u].email # resp'.email)}
        IN ( /\ resp'.op = "upsert_discord_user"
             /\ u # NoneId )
           => ( /\ resp'.kind = "return"
                /\ ~resp'.is_new
                /\ resp'.user = u
                /\ resp'.changes = differs
                /\ users' =
                     [users EXCEPT
                        ![u].name = IF "name" \in differs
                                    THEN resp'.name ELSE @,
                        ![u].discord_username =
                            IF "discord_username" \in differs
                            THEN resp'.dname ELSE @,
                        ![u].email = IF "email" \in differs
                                     THEN resp'.email ELSE @] ) ]_vars

----------------------------------------------------------------------------
(* The bot command /bater-ponto-para: the API call, the reply to the admin *)
(* and the notification in a public channel are three steps of one command *)

BotIdle == [pc |-> "idle", branch |-> "none", uid |-> NoneId, eid |-> NoneId, replies |-> << >>, notify |-> "none"]

\* the branch taken on every 200 answer, whatever its success flag
slash_bater_ponto_para_branch_any_200(status, success) ==
    IF status = 200 THEN "success" ELSE "error"

\* the if / elif chain on (status, data.get("success"))
slash_bater_ponto_para_branch(status, success) ==
    IF status = 200 /\ success THEN "success"
    ELSE IF status = 403 THEN "forbidden"
    ELSE IF status = 404 THEN "unregistered"
    ELSE "error"

\* api_post("/discord/admin/attend-for-user"): the whole request, its commit
\* included, has finished when the bot reads the answer; an exception in the
\* handler is answered with status 500
BotApiPost(i, admin_discord_id, nome, evento_id) ==
    \E target_user \in FirstOf(get_user_by_name(users, nome)) :
        LET r == mark_attendance_for_user(users, events, attendance, now,
                                          admin_discord_id, target_user,
                                          evento_id)
            status == IF r.raised # NoneStr THEN 500 ELSE 200
            success == r.raised = NoneStr /\ r.success
        IN /\ reqs[i].pc = "idle"
           /\ attendance' = r.att
           /\ resp' = [NoResp EXCEPT
                         !.op = "mark_attendance_for_user",
                         !.did = admin_discord_id, !.name = nome,
                         !.eid = evento_id,
                         !.kind = IF r.raised # NoneStr THEN "raise"
                                  ELSE "return",
                         !.success = IF r.success THEN "true" ELSE "false",
                         !.msg = IF r.raised # NoneStr THEN r.raised ELSE r.msg,
                         !.event = r.event, !.user = r.target]
           /\ reqs' = [reqs EXCEPT ![i] =
                         [BotIdle EXCEPT
                            !.pc = "reply",
                            !.branch = slash_bater_ponto_para_branch(status,
                                                                     success),
                            !.uid = r.target, !.eid = r.event]]
           /\ UNCHANGED <<users, events, now>>

\* interaction.response.send_message of the branch taken; the call is outside
\* the try block, so when it raises the command ends there
BotReply(i, delivered) ==
    LET q == reqs[i]
    IN /\ q.pc = "reply"
       /\ reqs' = [reqs EXCEPT ![i] =
                     [q EXCEPT
                        !.pc = IF delivered /\ q.branch = "success"
                               THEN "notify" ELSE "done",
                        !.replies = IF delivered THEN Append(@, q.branch)
                                    ELSE @]]
       /\ UNCHANGED <<users, events, attendance, now, resp>>

NotifyOutcomes == {"no_channel", "sent", "failed"}

\* the try block: look for a channel whose name holds 'chat' and send to it;
\* every exception is swallowed
BotNotify(i, outcome) ==
    LET q == reqs[i]
    IN /\ q.pc = "notify"
       /\ reqs' = [reqs EXCEPT ![i] =
                     [q EXCEPT !.pc = "done", !.notify = outcome]]
       /\ UNCHANGED <<users, events, attendance, now, resp>>

InitBot ==
    /\ users = [SeedUsers EXCEPT ![1].is_admin = TRUE]
    /\ events = SeedEvents
    /\ attendance = EmptyBag
    /\ now = 0
    /\ resp = NoResp
    /\ reqs = [i \in Slots |-> BotIdle]

NextBot ==
    \/ Tick
    \/ \E i \in Slots, a \in {"d1", "d2"}, n \in TargetNames :
         \E e \in {NoneId, 1} : BotApiPost(i, a, n, e)
    \/ \E i \in Slots, delivered \in BOOLEAN : BotReply(i, delivered)
    \/ \E i \in Slots, o \in NotifyOutcomes : BotNotify(i, o)

SpecBot == InitBot /\ [][NextBot]_vars

\* C24: in the admin-on-behalf flow the public channel notification is
\* attempted only after the store transaction has committed and the success
\* outcome has been returned to the admin; whether the notification is sent,
\* fails or finds no channel, the attendance row stays, the stored state is
\* untouched and no second or different outcome is reported to the admin.
C24_NotifyAfterCommitAndReply ==
    /\ [](\A i \in Slots :
            /\ Len(reqs[i].replies) <= 1
            /\ (reqs[i].pc = "notify" \/ reqs[i].notify # "none")
               => /\ attended(attendance, reqs[i].uid, reqs[i].eid)
                  /\ reqs[i].replies = << "success" >>)
    /\ [][ \A i \in Slots :
             (reqs[i].pc = "notify" /\ reqs'[i].pc # "notify")
             => /\ reqs'[i].notify \in NotifyOutcomes
                /\ reqs'[i].replies = reqs[i].replies
                /\ <<users, events, attendance, resp>>'
                     = <<users, events, attendance, resp>> ]_vars

C24_Witness ==
    \E i \in Slots, j \in Slots :
        /\ reqs[i].notify = "failed"
        /\ reqs[j].notify = "no_channel"
        /\ attended(attendance, reqs[i].uid, reqs[i].eid)
        /\ attended(attendance, reqs[j].uid, reqs[j].eid)

----------------------------------------------------------------------------
(* Refusals are outcomes, not exceptions *)

\* C25: every business-rule refusal of the coordinator functions is delivered
\* as an ordinary returned outcome carrying a reason, never as a raised
\* exception, and leaves users, events and attendance unchanged; here for the
\* duplicate-name refusal of upsert_discord_user and set_user_name: the
\* proposed name is the stored name of a user other than the caller.
C25_DuplicateNameIsReturned ==
    [][ ( /\ resp'.op \in {"upsert_discord_user", "set_user_name"}
          /\ \E j \in UserIds(users) :
                /\ users[j].discord_user_id # resp'.did
                /\ users[j].name = resp'.name )
        => ( /\ resp'.kind = "return"
             /\ <<users, events, attendance>>' = <<users, events, attendance>> )
      ]_vars

----------------------------------------------------------------------------
(* The operations that default to the current event *)

NextDefault ==
    \/ Tick
    \/ \E e \in EventIds(events), u \in ActiveOnlyUpdates : UpdateEvent(e, u)
    \/ \E d \in DiscordIds : AutoAttendEventDiscord(d)
    \/ \E a \in DiscordIds, n \in TargetNames :
         MarkAttendanceForUser(a, n, NoneId)

SpecDefault == InitEvents /\ [][NextDefault]_vars

\* C26: when two or more events are ongoing, auto_attend_event_discord and
\* mark_attendance_for_user called without an event id never pick one of
\* them: no attendance row is created for any event, and a call that gets as
\* far as resolving the current event returns the ambiguity error unchanged;
\* when no event is ongoing they likewise create no row and return the
\* 'none running' error.
C26_DefaultEventNeverGuessed ==
    [][ LET n == Cardinality(get_active_events(events, now))
            caller == get_user_by_discord_id(users, resp'.did)
            T == get_user_by_name(users, resp'.name)
            resolves ==
                IF resp'.op = "auto_attend_event_discord"
                THEN caller # NoneId
                ELSE /\ caller # NoneId
                     /\ users[caller].is_admin
                     /\ T # {}
                     /\ resp'.user # caller
        IN ( /\ \/ resp'.op = "auto_attend_event_discord"
                \/ (resp'.op = "mark_attendance_for_user"
                    /\ resp'.eid = NoneId)
             /\ n # 1 )
           => ( /\ attendance' = attendance
                /\ resp'.kind = "return"
                /\ resp'.success = "false"
                /\ resp'.event = NoneId
                /\ resolves
                   => resp'.msg = IF n = 0 THEN MsgNoneRunning
                                  ELSE MsgAmbiguous ) ]_vars

\* an admin marked for a target without an event id while two events were
\* ongoing, and was given the ambiguity error with no row created
C26_Witness ==
    /\ resp.op = "mark_attendance_for_user"
    /\ resp.eid = NoneId
    /\ resp.msg = MsgAmbiguous
    /\ Cardinality(get_active_events(events, now)) = 2
    /\ attendance = EmptyBag

----------------------------------------------------------------------------
(* The creator of an event *)

\* C27: every event persisted through a creation path (POST /events/ and the
\* Discord create path) carries a creator reference equal to the id of the
\* existing user who issued the creation, and a creation by an authorized
\* caller succeeds with exactly one new persisted event.
C27_CreatedEventHasCreator ==
    [][ LET caller == IF resp'.op = "create_event" THEN resp'.uid
                      ELSE get_user_by_discord_id(users, resp'.did)
        IN ( /\ resp'.op \in {"create_event", "create_event_discord"}
             /\ resp'.msg # ValidationError
             /\ caller \in UserIds(users)
             /\ resp'.op = "create_event_discord" => users[caller].is_admin )
           => ( /\ resp'.kind = "return"
                /\ Len(events') = Len(events) + 1
                /\ SubSeq(events', 1, Len(events)) = events
                /\ events'[Len(events')].user_id = caller ) ]_vars

----------------------------------------------------------------------------
(* The attendability check and the commit of a marking call *)

\* C28: under any interleaving of a marking call with the advance of the
\* clock (or an update of the event) between the call's attendability check
\* and its commit, an attendance row is committed only if, at the moment of
\* the commit, the event has is_active = true and
\* start_time <= now <= end_time.
C28_CommittedOnlyWhileAttendable ==
    [][ attendance' # attendance
        => \E e \in EventIds(events) :
              /\ resp'.eid = e
              /\ events[e].is_active
              /\ events[e].start_time <= now
              /\ now <= events[e].end_time ]_vars

----------------------------------------------------------------------------
(* One relation behind the two marking paths *)

\* db_user.attended_events: the events joined to the user through
\* user_event_attendance
get_user_attended_events(us, evs, att, user_id) ==
    IF get_user(us, user_id) = NoneId THEN {}
    ELSE {e \in EventIds(evs) : \E r \in BagToSet(att) : r.user_id = user_id /\ r.event_id = e}

\* db_event.attendees: the users joined to the event through
\* user_event_attendance
get_event_attendees(us, evs, att, event_id) ==
    IF get_event(evs, event_id) = NoneId THEN {}
    ELSE {u \in UserIds(us) : \E r \in BagToSet(att) : r.event_id = event_id /\ r.user_id = u}

\* C29: self-service marking (through the user's attended-events collection)
\* and marking on behalf (through the event's attendee collection) act on
\* one relation: whichever path marks a (user, event) pair first adds its
\* single row, a later call on either path observes the row, reports it and
\* adds nothing, and the membership queries from the user side and from the
\* event side always agree.
C29_OneRelationTwoPaths ==
    /\ [](\A u \in UserIds(users), e \in EventIds(events) :
            /\ PairCount(attendance, u, e) <= 1
            /\ e \in get_user_attended_events(users, events, attendance, u)
               <=> u \in get_event_attendees(users, events, attendance, e))
    /\ [][ resp'.op \in {"mark_attendance", "mark_attendance_for_user"}
           => LET u == IF resp'.op = "mark_attendance" THEN resp'.uid
                       ELSE resp'.user
              IN /\ resp'.kind = "return"
                 /\ attendance' # attendance
                    => \E e \in EventIds(events) :
                         /\ resp'.event = e
                         /\ ~attended(attendance, u, e)
                         /\ attendance' = attendance (+) SetToBag(
                              {[user_id |-> u, event_id |-> e,
                                attended_at |-> now]})
                 /\ resp'.msg \in {MsgAlready, MsgTargetAlready}
                    => /\ attendance' = attendance
                       /\ attended(attendance, u, resp'.event)
                 /\ (resp'.event # NoneId /\ attended(attendance, u, resp'.event))
                    => /\ attendance' = attendance
                       /\ can_attend_event(events, resp'.event, now).can_attend
                          => resp'.msg \in {MsgAlready, MsgTargetAlready} ]_vars

\* an admin marked for a target who had a row, and was told so, while the
\* admin's own row, which only self-service marking can add, is stored too
C29_Witness ==
    /\ resp.op = "mark_attendance_for_user"
    /\ resp.msg = MsgTargetAlready
    /\ attended(attendance, resp.user, resp.event)
    /\ \E a \in UserIds(users) :
          /\ users[a].discord_user_id = resp.did
          /\ \A o \in UserIds(users) : users[o].is_admin => o = a
          /\ attended(attendance, a, resp.event)

----------------------------------------------------------------------------
(* Concurrent renames: the availability check of set_user_name and its     *)
(* commit are two steps                                                     *)

\* set_user_name up to its assignments: the lookup and the availability check
SetUserNameBegin(i, discord_user_id, name) ==
    LET user == get_user_by_discord_id(users, discord_user_id)
        refusal == IF user = NoneId THEN MsgNotRegisteredFirst
                   ELSE IF ~check_name_available(users, name, user)
                        THEN MsgNameTaken ELSE NoneStr
    IN /\ reqs[i].pc = "idle"
       /\ IF refusal = NoneStr
          THEN /\ reqs' = [reqs EXCEPT ![i] =
                             [Idle EXCEPT !.pc = "commit",
                                          !.op = "set_user_name",
                                          !.uid = user,
                                          !.did = discord_user_id,
                                          !.name = name]]
               /\ resp' = resp
          ELSE /\ reqs' = reqs
               /\ resp' = [NoResp EXCEPT
                             !.op = "set_user_name", !.did = discord_user_id,
                             !.name = name, !.success = "false",
                             !.msg = refusal]
       /\ UNCHANGED <<users, events, attendance, now>>

\* db.commit() of a rename: the UPDATE of name (lower-cased) and updated_at;
\* the clock does not move in between, so updated_at is the instant the call
\* read
SetUserNameCommit(i) ==
    LET q == reqs[i]
        upd == users_update(users, q.uid,
                            [users[q.uid] EXCEPT !.name = Lower(q.name),
                                                 !.updated_at = now])
    IN /\ q.pc = "commit"
       /\ q.op = "set_user_name"
       /\ users' = upd.users
       /\ resp' = [NoResp EXCEPT
                     !.op = "set_user_name", !.did = q.did, !.name = q.name,
                     !.kind = IF upd.ok THEN "return" ELSE "raise",
                     !.success = IF upd.ok THEN "true" ELSE "false",
                     !.msg = IF upd.ok THEN MsgNameSet ELSE IntegrityError,
                     !.user = IF upd.ok THEN q.uid ELSE NoneId]
       /\ reqs' = [reqs EXCEPT ![i] = Idle]
       /\ UNCHANGED <<events, attendance, now>>

\* two registered users whose names differ ignoring case
InitRename ==
    /\ users = [SeedUsers EXCEPT ![1].name = <<"c", "d">>]
    /\ events = SeedEvents
    /\ attendance = EmptyBag
    /\ now = 0
    /\ resp = NoResp
    /\ reqs = [i \in Slots |-> Idle]

NextRename ==
    \/ \E i \in Slots, d \in DiscordIds, n \in Names : SetUserNameBegin(i, d, n)
    \/ \E i \in Slots : SetUserNameCommit(i)

SpecRename == InitRename /\ [][NextRename]_vars

\* C30: when two different users run set_user_name concurrently with names
\* that are equal ignoring case, and both availability checks complete
\* before either write, at most one of the two calls ends with that name
\* stored: no interleaving leaves two users holding the same name ignoring
\* case.
C30_ConcurrentRenamesOneHolder ==
    \A i \in UserIds(users), j \in UserIds(users) :
        i # j => Lower(users[i].name) # Lower(users[j].name)

\* the second of two overlapping renames to the same name ignoring case was
\* stopped at its commit, the name being held by the other user
C30_Witness ==
    /\ resp.op = "set_user_name"
    /\ resp.kind = "raise"
    /\ \E i \in UserIds(users) :
          /\ users[i].discord_user_id # resp.did
          /\ users[i].name = Lower(resp.name)
          /\ users[i].name # resp.name

====
